---- MODULE Spec2Model ----
(***************************************************************************)
(* celogovernance: the command line tool of src/src/index.ts.  One run of  *)
(* the process is modelled: main() selects viewProposal, listProposals or  *)
(* listExecutedProposals; every await of an external call (the contract    *)
(* kit, the governance/lockedGold/accounts wrappers, the event log) is one *)
(* step that either rejects or resolves, followed by the synchronous code  *)
(* up to the next await.  console.debug writes to stdout, console.error to *)
(* stderr.                                                                 *)
(***************************************************************************)
EXTENDS Integers, Sequences, FiniteSets, TLC

(***************************************************************************)
(* Bounds of the model.                                                    *)
(***************************************************************************)
\* Longest "tail" of a proposal (see Proposals).
MaxTxs == 2

\* concurrentMap(4, ...): the concurrency argument of index.ts:41.
ConcurrencyLimit == 4
\* v.length !== 42 of index.ts:57.
AddressLength == 42

\* Proposal IDs on the command line and in the event log.
IDs == {1, 2}

None == [t |-> "none"]

(***************************************************************************)
(* JavaScript values: strings, numbers, booleans and undefined are kept    *)
(* apart by a tag, as typeof does.                                         *)
(***************************************************************************)
Str(s) == [t |-> "string", s |-> s]
Num(n) == [t |-> "number", n |-> n]
Bool(b) == [t |-> "boolean", b |-> b]
Undefined == [t |-> "undefined"]

\* obj[key] on a Record<string, any>: undefined when the key is absent.
JSGet(obj, key) == IF key \in DOMAIN obj THEN obj[key] ELSE Undefined

\* k < x for a number k: a comparison with undefined (NaN) is false.
JSLess(k, x) == IF x.t = "number" THEN k < x.n ELSE FALSE

\* `${v}` in a template literal.
JSTemplate(v) ==
    CASE v.t = "string" -> v.s
      [] v.t = "number" -> ToString(v.n)
      [] v.t = "boolean" -> (IF v.b THEN "true" ELSE "false")
      [] OTHER -> "undefined"

\* String.prototype.startsWith
StartsWith(s, p) == Len(s) >= Len(p) /\ SubSeq(s, 1, Len(p)) = p

\* Array.prototype.join
RECURSIVE Join(_, _)
Join(strs, sep) ==
    IF Len(strs) = 0 THEN ""
    ELSE IF Len(strs) = 1 THEN strs[1]
    ELSE strs[1] \o sep \o Join(Tail(strs), sep)

(***************************************************************************)
(* The external collaborators' data: what the ABI decoder returns for the  *)
(* raw transactions of the model, the registry of contract addresses and   *)
(* the accounts registry.                                                  *)
(***************************************************************************)
ElectionAddress == "0x8D6677192144292870907E3Fa8A5527fE55A7ff6"
PartnerAddress == "0x0ba9f5B3CdD349aB65a8DacDA9A38Bc525C2e6D6"
ProposerAddress == "0xF3EB910DA09B8AF348E0E5B6636da442cFa79239"

\* new Map(contractDetails.map((cd) => [cd.address, cd])): address -> cd.name
contractAddresses == [a \in {ElectionAddress} |-> "Election"]

\* accounts.isAccount / accounts.getName
accountNames == [a \in {ProposerAddress} |-> "proposer"]

\* Raw transactions a proposal can hold.
TxKinds == {"unfreeze", "setCarbonOffsettingFund", "undecodable", "mismatch"}

\* blockExplorer.tryParseTx(tx): null, or the decoded call.  "mismatch" is a
\* call whose two parameters carry the same (empty) name, so that paramMap
\* has one key for two arguments.
tryParseTx(tx) ==
    CASE tx = "unfreeze" ->
           [callDetails |->
              [contract |-> "Freezer", function |-> "unfreeze",
               paramMap |-> [k \in {"target"} |-> Str(ElectionAddress)],
               argList |-> <<Str(ElectionAddress)>>],
            tx |-> [value |-> "0"]]
      [] tx = "setCarbonOffsettingFund" ->
           [callDetails |->
              [contract |-> "EpochRewards", function |-> "setCarbonOffsettingFund",
               paramMap |-> [k \in {"partner", "value"} |->
                               IF k = "partner" THEN Str(PartnerAddress)
                               ELSE Str("1000000000000000000000")],
               argList |-> <<Str(PartnerAddress), Str("1000000000000000000000")>>],
            tx |-> [value |-> "0"]]
      [] tx = "mismatch" ->
           [callDetails |->
              [contract |-> "Governance", function |-> "setFlag",
               paramMap |-> [k \in {""} |-> Bool(TRUE)],
               argList |-> <<Str(ProposerAddress), Bool(TRUE)>>],
            tx |-> [value |-> "0"]]
      [] OTHER -> None


(***************************************************************************)
(* proposalToJSON: the function mapped over the transactions.              *)
(***************************************************************************)
\* The annotation loop `for (let k = 0; k < paramMap.length; k += 1)`, from
\* index k on.  paramMap is a Record keyed by parameter names; its keys are
\* read as the code reads them, paramMap.length and paramMap[k].
RECURSIVE AnnotateLoop(_, _)
AnnotateLoop(paramMap, k) ==
    IF ~JSLess(k, JSGet(paramMap, "length")) THEN paramMap
    ELSE LET v == JSGet(paramMap, ToString(k)) IN
         IF v.t # "string" THEN AnnotateLoop(paramMap, k + 1)
         ELSE IF ~StartsWith(v.s, "0x") \/ Len(v.s) # AddressLength
              THEN AnnotateLoop(paramMap, k + 1)
         ELSE IF v.s \in DOMAIN contractAddresses
              THEN AnnotateLoop(
                     [paramMap EXCEPT ![ToString(k)] =
                        Str("contract." \o contractAddresses[v.s] \o ":" \o v.s)],
                     k + 1)
         ELSE IF v.s \in DOMAIN accountNames
              THEN AnnotateLoop(
                     [paramMap EXCEPT ![ToString(k)] =
                        Str("account." \o accountNames[v.s] \o ":" \o v.s)],
                     k + 1)
         ELSE AnnotateLoop(paramMap, k + 1)

\* The addresses the annotation loop, from index k on, reaches
\* `await accounts.isAccount(v)` with (index.ts:64), in the order of the
\* awaits: the external lookups of one task, issued one after another.
RECURSIVE IsAccountCalls(_, _)
IsAccountCalls(paramMap, k) ==
    IF ~JSLess(k, JSGet(paramMap, "length")) THEN <<>>
    ELSE LET v == JSGet(paramMap, ToString(k)) IN
         IF v.t # "string" THEN IsAccountCalls(paramMap, k + 1)
         ELSE IF ~StartsWith(v.s, "0x") \/ Len(v.s) # AddressLength
              THEN IsAccountCalls(paramMap, k + 1)
         ELSE IF v.s \in DOMAIN contractAddresses
              THEN IsAccountCalls(paramMap, k + 1)
         ELSE <<v.s>> \o IsAccountCalls(paramMap, k + 1)

\* The parameter-count check of index.ts:47 dropped (a mutation).
mapFnUnchecked(tx) ==
    LET parsedTx == tryParseTx(tx) IN
    IF parsedTx = None
    THEN [ok |-> FALSE, error |-> "Error: Unable to parse [object Object] with block explorer"]
    ELSE [ok |-> TRUE,
          value |-> [contract |-> parsedTx.callDetails.contract,
                     function |-> parsedTx.callDetails.function,
                     params |-> AnnotateLoop(parsedTx.callDetails.paramMap, 0),
                     value |-> parsedTx.tx.value]]

\* async (tx) => {...}: the outcome of the task for one transaction, a
\* rejection with its error or the ProposalTransactionJSON it resolves to.
mapFn(tx) ==
    LET parsedTx == tryParseTx(tx) IN
    IF parsedTx = None
    THEN [ok |-> FALSE, error |-> "Error: Unable to parse [object Object] with block explorer"]
    ELSE LET paramMap == parsedTx.callDetails.paramMap
             nKeys == Cardinality(DOMAIN paramMap)
             nArgs == Len(parsedTx.callDetails.argList)
         IN IF nKeys # nArgs
            THEN [ok |-> FALSE,
                  error |-> "Error: Length of parameters " \o ToString(nKeys)
                            \o " doesn't match length of arguments " \o ToString(nArgs)]
            ELSE [ok |-> TRUE,
                  value |-> [contract |-> parsedTx.callDetails.contract,
                             function |-> parsedTx.callDetails.function,
                             params |-> AnnotateLoop(paramMap, 0),
                             value |-> parsedTx.tx.value]]

(***************************************************************************)
(* concurrentMap(concurrency, xs, mapFn): the batches of at most           *)
(* `concurrency` elements, each awaited with Promise.all before the next.  *)
(***************************************************************************)
Min(a, b) == IF a < b THEN a ELSE b

\* xs.slice(i * concurrency, i * concurrency + sliceSize), batch i from 0.
Slice(xs, i) ==
    SubSeq(xs, i * ConcurrencyLimit + 1,
           i * ConcurrencyLimit + Min(Len(xs) - i * ConcurrencyLimit, ConcurrencyLimit))

\* i < xs.length / concurrency
HasBatch(xs, i) == i * ConcurrencyLimit < Len(xs)

\* slice.map(mapFn): the tasks of batch i, started in index order.
StartBatch(xs, i) == [j \in 1..Len(Slice(xs, i)) |-> mapFn(Slice(xs, i)[j])]

\* Promise.all over settled tasks: rejects with the first rejection.
FirstRejected(ts) ==
    LET bad == {j \in 1..Len(ts) : ~ts[j].ok} IN
    IF bad = {} THEN 0 ELSE CHOOSE j \in bad : \A m \in bad : j <= m

\* res = res.concat(await Promise.all(...))
ConcatResults(res, ts) == res \o [j \in 1..Len(ts) |-> ts[j].value]

(***************************************************************************)
(* Formatting.                                                             *)
(***************************************************************************)
\* epochDate: the Date of epochSecs * 1000 milliseconds, as a string.
epochDate(epochSecs) == "Date(" \o ToString(epochSecs * 1000) \o ")"

\* x.div(1e18).toFixed(18); amounts of the model are whole multiples of
\* 10^18 and are kept in that unit.
ToFixed18(units) == ToString(units) \o ".000000000000000000"

\* x.multipliedBy(100).dividedToIntegerBy(total), printed.
PctStr(x, total) ==
    IF total = 0 THEN (IF x = 0 THEN "NaN" ELSE "Infinity")
    ELSE ToString((x * 100) \div total)

\* String(b).toUpperCase()
UpperBool(b) == IF b THEN "TRUE" ELSE "FALSE"

\* for (let k = 0; k < tx.params.length; k += 1) params.push(`${k}=${tx.params[k]}`)
RECURSIVE ParamsFrom(_, _)
ParamsFrom(params, k) ==
    IF ~JSLess(k, JSGet(params, "length")) THEN <<>>
    ELSE <<ToString(k) \o "=" \o JSTemplate(JSGet(params, ToString(k)))>>
         \o ParamsFrom(params, k + 1)

\* paramsMsg of index.ts:166-171
ParamsMsg(params) ==
    IF Len(params) = 1 THEN params[1]
    ELSE IF Len(params) > 1 THEN "\n    " \o Join(params, ",\n    ") \o ",\n"
    ELSE ""

\* `${tx.contract}.${tx.function}(${paramsMsg})`
TxLine(tx) ==
    tx.contract \o "." \o tx.function \o "(" \o ParamsMsg(ParamsFrom(tx.params, 0)) \o ")"

\* The transaction loop reading propJSON from the last entry (a mutation).
TransactionLinesReversed(proposal, json) ==
    <<"">> \o [idx \in 1..Len(proposal) |-> TxLine(json[Len(proposal) + 1 - idx])]

\* index.ts:159-173: the blank line and one line per transaction.
TransactionLines(proposal, json) ==
    <<"">> \o [idx \in 1..Len(proposal) |-> TxLine(json[idx])]


(***************************************************************************)
(* The inputs of a run: the command line and what the chain returns.       *)
(***************************************************************************)
Stages == {"Queued", "Approval", "Referendum", "Execution", "Expiration"}

\* program.opts(): --proposalID <id>, --history, or neither.
Options ==
    [proposalID : {Str(ToString(id)) : id \in IDs} \cup {Undefined}, history : {FALSE}]
      \cup {[proposalID |-> Undefined, history |-> TRUE]}

\* if (v): undefined and the empty string are falsy.
Truthy(v) == v.t = "string" /\ v.s # ""

\* new BigNumber(s) for the decimal string of an ID.
BigNumber(s) == CHOOSE id \in IDs : ToString(id) = s

RECURSIVE SeqsUpTo(_, _)
SeqsUpTo(S, n) ==
    IF n = 0 THEN {<<>>}
    ELSE LET shorter == SeqsUpTo(S, n - 1) IN
         shorter \cup {Append(s, x) : s \in {t \in shorter : Len(t) = n - 1}, x \in S}

\* One full batch of decodable transactions.
FullBatch ==
    [j \in 1..ConcurrencyLimit |->
       IF j % 2 = 1 THEN "unfreeze" ELSE "setCarbonOffsettingFund"]

\* record.proposal: every sequence of at most MaxTxs transactions, alone or
\* after one full batch (so that concurrentMap runs a second batch).
Proposals ==
    LET tails == SeqsUpTo(TxKinds, MaxTxs) IN
    tails \cup {FullBatch \o s : s \in tails \ {<<>>}}

\* record.passing and record.votes (in units of 10^18).
VoteCases ==
    {[passing |-> FALSE, votes |-> [Yes |-> 0, No |-> 0, Abstain |-> 0]],
     [passing |-> TRUE, votes |-> [Yes |-> 6, No |-> 3, Abstain |-> 1]]}

\* governance.getProposalRecord(proposalID)
ProposalRecords ==
    {[proposal |-> p,
      metadata |-> [proposer |-> ProposerAddress,
                    descriptionURL |-> "https://gist.github.com/proposal",
                    timestamp |-> 1000],
      stage |-> st, passing |-> vc.passing, votes |-> vc.votes, upvotes |-> 5] :
       p \in Proposals, st \in Stages, vc \in VoteCases}

\* The ProposalQueued / ProposalExecuted events of the log, in block order.
QueuedEvent(id) ==
    [returnValues |-> [proposalId |-> id, proposer |-> ProposerAddress],
     blockNumber |-> 10 * id]
ExecutedEvent(id) ==
    [returnValues |-> [proposalId |-> id], blockNumber |-> 10 * id + 5,
     transactionHash |-> "0xhash" \o ToString(id)]

RECURSIVE EventsOf(_, _, _)
EventsOf(ids, id, isQueued) ==
    IF id \notin IDs THEN <<>>
    ELSE (IF id \in ids
          THEN <<IF isQueued THEN QueuedEvent(id) ELSE ExecutedEvent(id)>>
          ELSE <<>>)
         \o EventsOf(ids, id + 1, isQueued)

\* getPastEvents(name, {fromBlock}): the events at or after fromBlock.
RECURSIVE FromBlock(_, _)
FromBlock(log, fromBlock) ==
    IF log = <<>> THEN <<>>
    ELSE (IF Head(log).blockNumber >= fromBlock THEN <<Head(log)>> ELSE <<>>)
         \o FromBlock(Tail(log), fromBlock)

\* eventLog.find((e) => true): the first event, whatever its ID (a mutation).
FindAny(eventLog, id) ==
    IF eventLog = <<>> THEN Undefined ELSE eventLog[1]

\* eventLog.find((e) => new BigNumber(e.returnValues.proposalId).eq(proposalID))
Find(eventLog, id) ==
    LET hits == {j \in 1..Len(eventLog) :
                   eventLog[j].returnValues.proposalId = id} IN
    IF hits = {} THEN Undefined
    ELSE eventLog[CHOOSE j \in hits : \A m \in hits : j <= m]

\* governance.getDequeue(true) and governance.getQueue()
DequeueLists == {<<>>, <<1>>, <<2, 1>>}
QueueLists ==
    {<<>>, <<[proposalID |-> 2, upvotes |-> 5]>>,
     <<[proposalID |-> 1, upvotes |-> 0], [proposalID |-> 2, upvotes |-> 5]>>}

VARIABLES
    opts,           \* program.opts()
    queuedLog,      \* chain: the ProposalQueued events
    executedLog,    \* chain: the ProposalExecuted events
    chainExpired,   \* chain: the IDs isDequeuedProposalExpired is true of
    pc,             \* the await the selected operation is suspended at
    mainPromise,    \* the promise of main()
    opPromise,      \* the promise of the selected operation
    reason,         \* the reason of the rejection
    stdout,         \* console.debug
    stderr,         \* console.error
    exitCode,       \* the exit code, once the process has exited
    record,         \* viewProposal: record
    tasks,          \* concurrentMap: the tasks of the batch being awaited
    i,              \* concurrentMap: i
    res,            \* concurrentMap: res
    propJSON,       \* viewProposal: propJSON
    isApproved,     \* viewProposal: isApproved
    totalLocked,    \* viewProposal: totalLocked
    params,         \* viewProposal: params (baseline, in percent)
    event,          \* viewProposal: event
    pastQueue,      \* listProposals: pastQueue
    queue,          \* listProposals: queue
    pos,            \* listProposals: position of the for-of loops
    expired         \* listProposals: expired

\* viewProposal: proposalID, the new BigNumber(opts.proposalID) of index.ts:221
proposalID == BigNumber(opts.proposalID.s)

vars == <<opts, queuedLog, executedLog, chainExpired, pc, mainPromise, opPromise,
          reason, stdout, stderr, exitCode, record, tasks, i, res, propJSON,
          isApproved, totalLocked, params, event, pastQueue, queue, pos, expired>>

chainVars == <<opts, queuedLog, executedLog, chainExpired>>
procVars == <<mainPromise, stderr, exitCode>>
viewVars == <<record, tasks, i, res, propJSON, isApproved, totalLocked, params, event>>
listVars == <<pastQueue, queue, pos, expired>>

Init ==
    /\ opts \in Options
    /\ \E queued \in SUBSET IDs : \E executed \in SUBSET queued :
         /\ queuedLog = EventsOf(queued, 1, TRUE)
         /\ executedLog = EventsOf(executed, 1, FALSE)
    /\ chainExpired \in SUBSET IDs
    /\ pc = "main"
    /\ mainPromise = "pending"
    /\ opPromise = "pending"
    /\ reason = ""
    /\ stdout = <<>>
    /\ stderr = <<>>
    /\ exitCode = None
    /\ record = None
    /\ tasks = <<>>
    /\ i = 0
    /\ res = <<>>
    /\ propJSON = None
    /\ isApproved = None
    /\ totalLocked = None
    /\ params = None
    /\ event = None
    /\ pastQueue = None
    /\ queue = None
    /\ pos = 0
    /\ expired = None

\* A throw, or the rejection of an awaited call, inside the operation.
Reject(e) ==
    /\ pc' = "settled"
    /\ opPromise' = "rejected"
    /\ reason' = e

\* The operation returns.
Return ==
    /\ pc' = "settled"
    /\ opPromise' = "resolved"
    /\ UNCHANGED reason

\* The await of an external call that yields nothing the model keeps.
Await(at, next, call) ==
    /\ pc = at
    /\ \/ Reject("Error: " \o call \o " failed")
       \/ /\ pc' = next
          /\ UNCHANGED <<opPromise, reason>>

(***************************************************************************)
(* main                                                                    *)
(***************************************************************************)
\* index.ts:217-229.  listProposals(kit) is not awaited: main returns while
\* it is suspended at its first await.
Main ==
    /\ pc = "main"
    /\ IF Truthy(opts.proposalID)
       THEN pc' = "v_getGovernance" /\ UNCHANGED mainPromise
       ELSE IF opts.history
       THEN pc' = "h_getGovernance" /\ UNCHANGED mainPromise
       ELSE pc' = "l_getGovernance" /\ mainPromise' = "resolved"
    /\ UNCHANGED <<chainVars, opPromise, reason, stdout, stderr, exitCode,
                   viewVars, listVars>>

\* `await viewProposal(...)` / `await listExecutedProposals(kit)` resumes:
\* main returns, or rejects with the operation's error.
MainResume ==
    /\ mainPromise = "pending"
    /\ opPromise # "pending"
    /\ exitCode = None
    /\ mainPromise' = opPromise
    /\ UNCHANGED <<chainVars, pc, opPromise, reason, stdout, stderr, exitCode,
                   viewVars, listVars>>

\* process.on('unhandledRejection', ...) of index.ts:22-26: main's promise,
\* or the promise of the listProposals call nothing awaits, was rejected.
UnhandledRejection ==
    /\ exitCode = None
    /\ \/ mainPromise = "rejected"
       \/ opPromise = "rejected" /\ mainPromise = "resolved"
    /\ stderr' = Append(stderr, "Unhandled Rejection at: " \o reason)
    /\ exitCode' = Num(0)
    /\ UNCHANGED <<chainVars, pc, mainPromise, opPromise, reason, stdout,
                   viewVars, listVars>>

\* Nothing is pending any more: node exits with the default exit code.
ProcessExit ==
    /\ exitCode = None
    /\ mainPromise = "resolved"
    /\ opPromise = "resolved"
    /\ exitCode' = Num(0)
    /\ UNCHANGED <<chainVars, pc, mainPromise, opPromise, reason, stdout, stderr,
                   viewVars, listVars>>


(***************************************************************************)
(* viewProposal                                                            *)
(***************************************************************************)
ExplorerURL == "https://explorer.celo.org/address/"

\* index.ts:114-116
HeaderLines(id, rec) ==
    <<"ProposalID: " \o ToString(id),
      "Proposer: " \o ExplorerURL \o rec.metadata.proposer,
      "Description: " \o rec.metadata.descriptionURL>>

\* index.ts:107-111 and 118-132: the stage lines printed before isApproved
\* is awaited (all of the stage block for a queued proposal).
StageLines(rec, durations) ==
    LET propEpoch == rec.metadata.timestamp
        referrendumEpoch == propEpoch + durations.Approval
        executionEpoch == referrendumEpoch + durations.Referendum
        expirationEpoch == executionEpoch + durations.Execution
        stage == rec.stage
    IN IF stage = "Queued"
       THEN <<"Stage:      " \o stage,
              "Proposed:   " \o epochDate(propEpoch),
              "Expires:    " \o epochDate(expirationEpoch),
              "UpVotes:    " \o ToFixed18(rec.upvotes)>>
       ELSE <<"Stage:      " \o stage,
              "Dequeued:   " \o epochDate(propEpoch)>>
            \o (IF stage = "Approval"
                THEN <<"Referendum: " \o epochDate(referrendumEpoch)>> ELSE <<>>)
            \o (IF stage = "Approval" \/ stage = "Referendum"
                THEN <<"Execution:  " \o epochDate(executionEpoch)>> ELSE <<>>)

\* The two tests of index.ts:135-137 in the other order (a mutation).
PassingBranchApprovedFirst(stage, approved) ==
    IF approved THEN "votes"
    ELSE IF stage = "Approval" THEN "notStarted"
    ELSE "none"

\* index.ts:135-137: which Passing line follows the Approved line.
PassingBranch(stage, approved) ==
    IF stage = "Approval" THEN "notStarted"
    ELSE IF approved THEN "votes"
    ELSE "none"

\* index.ts:152-155
VoteLines(rec, locked, baselinePct, pctYesNeeded) ==
    LET total == rec.votes.Yes + rec.votes.No + rec.votes.Abstain IN
    <<"  TOTAL:   " \o PctStr(total, locked) \o "% (Needs " \o ToString(baselinePct)
        \o "%) - " \o ToFixed18(total) \o " out of " \o ToFixed18(locked),
      "  YES:     " \o PctStr(rec.votes.Yes, total) \o "% (Needs "
        \o ToString(pctYesNeeded) \o "%) - " \o ToFixed18(rec.votes.Yes),
      "  NO:      " \o PctStr(rec.votes.No, total) \o "% - " \o ToFixed18(rec.votes.No),
      "  ABSTAIN: " \o PctStr(rec.votes.Abstain, total) \o "% - "
        \o ToFixed18(rec.votes.Abstain)>>

ViewGetGovernance ==
    /\ Await("v_getGovernance", "v_getLockedGold", "getGovernance")
    /\ UNCHANGED <<chainVars, procVars, stdout, viewVars, listVars>>

ViewGetLockedGold ==
    /\ Await("v_getLockedGold", "v_getProposalRecord", "getLockedGold")
    /\ UNCHANGED <<chainVars, procVars, stdout, viewVars, listVars>>

\* index.ts:86-87 and 105
ViewGetProposalRecord ==
    /\ pc = "v_getProposalRecord"
    /\ \/ /\ Reject("Error: getProposalRecord failed")
          /\ UNCHANGED record
       \/ \E r \in ProposalRecords :
            /\ record' = r
            /\ pc' = IF r.stage = "Expiration" THEN "v_getGovernanceDirect"
                     ELSE "p_obtainKitContractDetails"
            /\ UNCHANGED <<opPromise, reason>>
    /\ UNCHANGED <<chainVars, procVars, stdout, tasks, i, res, propJSON, isApproved,
                   totalLocked, params, event, listVars>>

\* index.ts:89
ViewGetGovernanceDirect ==
    /\ Await("v_getGovernanceDirect", "v_getPastEventsQueued", "_web3Contracts.getGovernance")
    /\ UNCHANGED <<chainVars, procVars, stdout, viewVars, listVars>>

\* index.ts:90-94
ViewGetPastEventsQueued ==
    /\ pc = "v_getPastEventsQueued"
    /\ \/ /\ Reject("Error: getPastEvents failed")
          /\ UNCHANGED event
       \/ LET e == Find(FromBlock(queuedLog, 0), proposalID) IN
          IF e = Undefined
          THEN /\ Reject("Error: Proposal " \o ToString(proposalID) \o " was not found")
               /\ UNCHANGED event
          ELSE /\ event' = e
               /\ pc' = "v_getPastEventsExecuted"
               /\ UNCHANGED <<opPromise, reason>>
    /\ UNCHANGED <<chainVars, procVars, stdout, record, tasks, i, res, propJSON,
                   isApproved, totalLocked, params, listVars>>

\* index.ts:95-102
ViewGetPastEventsExecuted ==
    /\ pc = "v_getPastEventsExecuted"
    /\ \/ /\ Reject("Error: getPastEvents failed")
          /\ UNCHANGED stdout
       \/ LET executed == Find(FromBlock(executedLog, event.blockNumber), proposalID) IN
          /\ stdout' = stdout \o
               <<"ProposalID: " \o ToString(proposalID),
                 "Proposer: " \o ExplorerURL \o event.returnValues.proposer,
                 IF executed # Undefined THEN "EXECUTED" ELSE "EXPIRED">>
          /\ Return
    /\ UNCHANGED <<chainVars, procVars, viewVars, listVars>>

\* index.ts:36
ObtainKitContractDetails ==
    /\ Await("p_obtainKitContractDetails", "p_getAccounts", "obtainKitContractDetails")
    /\ UNCHANGED <<chainVars, procVars, stdout, viewVars, listVars>>

\* Promise.all(proposal.map(...)) in place of concurrentMap(4, ...): the
\* tasks of all transactions started at once (a mutation).
GetAccountsAllAtOnce ==
    /\ pc = "p_getAccounts"
    /\ \/ /\ Reject("Error: getAccounts failed")
          /\ UNCHANGED <<tasks, i, res, propJSON>>
       \/ /\ i' = 0
          /\ res' = <<>>
          /\ IF Len(record.proposal) > 0
             THEN /\ tasks' = [j \in 1..Len(record.proposal) |-> mapFn(record.proposal[j])]
                  /\ pc' = "p_promiseAll"
                  /\ UNCHANGED propJSON
             ELSE /\ tasks' = <<>>
                  /\ propJSON' = <<>>
                  /\ pc' = "v_stageDurations"
          /\ UNCHANGED <<opPromise, reason>>
    /\ UNCHANGED <<chainVars, procVars, stdout, record, isApproved, totalLocked,
                   params, event, listVars>>

\* index.ts:37-41: once the accounts wrapper is there, concurrentMap starts
\* the tasks of the first batch; with no transaction it returns [] at once.
GetAccounts ==
    /\ pc = "p_getAccounts"
    /\ \/ /\ Reject("Error: getAccounts failed")
          /\ UNCHANGED <<tasks, i, res, propJSON>>
       \/ /\ i' = 0
          /\ res' = <<>>
          /\ IF HasBatch(record.proposal, 0)
             THEN /\ tasks' = StartBatch(record.proposal, 0)
                  /\ pc' = "p_promiseAll"
                  /\ UNCHANGED propJSON
             ELSE /\ tasks' = <<>>
                  /\ propJSON' = <<>>
                  /\ pc' = "v_stageDurations"
          /\ UNCHANGED <<opPromise, reason>>
    /\ UNCHANGED <<chainVars, procVars, stdout, record, isApproved, totalLocked,
                   params, event, listVars>>

\* `await Promise.all(...)` of a batch: the first rejection rejects
\* concurrentMap, proposalToJSON and viewProposal; otherwise the results are
\* appended and the next batch starts, or proposalToJSON returns res.
PromiseAll ==
    /\ pc = "p_promiseAll"
    /\ LET bad == FirstRejected(tasks) IN
       IF bad # 0
       THEN /\ Reject(tasks[bad].error)
            /\ tasks' = <<>>
            /\ UNCHANGED <<i, res, propJSON>>
       ELSE /\ res' = ConcatResults(res, tasks)
            /\ i' = i + 1
            /\ IF HasBatch(record.proposal, i + 1)
               THEN /\ tasks' = StartBatch(record.proposal, i + 1)
                    /\ UNCHANGED <<pc, propJSON>>
               ELSE /\ tasks' = <<>>
                    /\ propJSON' = res'
                    /\ pc' = "v_stageDurations"
            /\ UNCHANGED <<opPromise, reason>>
    /\ UNCHANGED <<chainVars, procVars, stdout, record, isApproved, totalLocked,
                   params, event, listVars>>

\* governance.stageDurations()
StageDurations ==
    {[Approval |-> 86400, Referendum |-> 172800, Execution |-> 259200]}

\* index.ts:107-132, and 159-174 for a queued proposal.
ViewStageDurations ==
    /\ pc = "v_stageDurations"
    /\ \/ /\ Reject("Error: stageDurations failed")
          /\ UNCHANGED stdout
       \/ \E durations \in StageDurations :
            IF record.stage = "Queued"
            THEN /\ stdout' = stdout \o HeaderLines(proposalID, record)
                                \o StageLines(record, durations)
                                \o TransactionLines(record.proposal, propJSON)
                 /\ Return
            ELSE /\ stdout' = stdout \o HeaderLines(proposalID, record)
                                \o StageLines(record, durations)
                 /\ pc' = "v_isApproved"
                 /\ UNCHANGED <<opPromise, reason>>
    /\ UNCHANGED <<chainVars, procVars, viewVars, listVars>>

\* index.ts:133-143, and 159-174 when no vote breakdown follows.
ViewIsApproved ==
    /\ pc = "v_isApproved"
    /\ \/ /\ Reject("Error: isApproved failed")
          /\ UNCHANGED <<stdout, isApproved>>
       \/ \E b \in BOOLEAN :
            /\ isApproved' = b
            /\ LET branch == PassingBranch(record.stage, b)
                   approved == <<"Approved:   " \o UpperBool(b)>>
               IN CASE branch = "notStarted" ->
                         /\ stdout' = stdout \o approved
                              \o <<"Passing:    FALSE (voting hasn't started yet!)">>
                              \o TransactionLines(record.proposal, propJSON)
                         /\ Return
                    [] branch = "votes" ->
                         /\ stdout' = stdout \o approved
                              \o <<"Passing:    " \o UpperBool(record.passing)>>
                         /\ pc' = "v_getTotalLockedGold"
                         /\ UNCHANGED <<opPromise, reason>>
                    [] OTHER ->
                         /\ stdout' = stdout \o approved
                              \o TransactionLines(record.proposal, propJSON)
                         /\ Return
    /\ UNCHANGED <<chainVars, procVars, record, tasks, i, res, propJSON, totalLocked,
                   params, event, listVars>>

\* index.ts:144-145
ViewGetTotalLockedGold ==
    /\ pc = "v_getTotalLockedGold"
    /\ \/ /\ Reject("Error: getTotalLockedGold failed")
          /\ UNCHANGED totalLocked
       \/ \E locked \in {0, 100} :
            /\ totalLocked' = locked
            /\ pc' = "v_getParticipationParameters"
            /\ UNCHANGED <<opPromise, reason>>
    /\ UNCHANGED <<chainVars, procVars, stdout, record, tasks, i, res, propJSON,
                   isApproved, params, event, listVars>>

\* index.ts:147-148; the baseline is kept in percent.
ViewGetParticipationParameters ==
    /\ pc = "v_getParticipationParameters"
    /\ \/ /\ Reject("Error: getParticipationParameters failed")
          /\ UNCHANGED params
       \/ \E bl \in {5} :
            /\ params' = [baseline |-> bl]
            /\ pc' = "v_getConstitution"
            /\ UNCHANGED <<opPromise, reason>>
    /\ UNCHANGED <<chainVars, procVars, stdout, record, tasks, i, res, propJSON,
                   isApproved, totalLocked, event, listVars>>

\* index.ts:149-155 and 159-174
ViewGetConstitution ==
    /\ pc = "v_getConstitution"
    /\ \/ /\ Reject("Error: getConstitution failed")
          /\ UNCHANGED stdout
       \/ \E pctYesNeeded \in {50, 70} :
            /\ stdout' = stdout
                 \o VoteLines(record, totalLocked, params.baseline, pctYesNeeded)
                 \o TransactionLines(record.proposal, propJSON)
            /\ Return
    /\ UNCHANGED <<chainVars, procVars, viewVars, listVars>>


(***************************************************************************)
(* listProposals                                                           *)
(***************************************************************************)
ListGetGovernance ==
    /\ Await("l_getGovernance", "l_getDequeue", "getGovernance")
    /\ UNCHANGED <<chainVars, procVars, stdout, viewVars, listVars>>

\* index.ts:178-181
ListGetDequeue ==
    /\ pc = "l_getDequeue"
    /\ \/ /\ Reject("Error: getDequeue failed")
          /\ UNCHANGED <<stdout, pastQueue, pos>>
       \/ \E q \in DequeueLists :
            /\ pastQueue' = q
            /\ IF Len(q) > 0
               THEN /\ stdout' = Append(stdout, "Proposals (" \o ToString(Len(q)) \o "):")
                    /\ pos' = 1
                    /\ pc' = "l_isDequeuedProposalExpired"
               ELSE /\ pc' = "l_getQueue"
                    /\ UNCHANGED <<stdout, pos>>
            /\ UNCHANGED <<opPromise, reason>>
    /\ UNCHANGED <<chainVars, procVars, viewVars, queue, expired>>

\* index.ts:182
ListIsDequeuedProposalExpired ==
    /\ pc = "l_isDequeuedProposalExpired"
    /\ \/ /\ Reject("Error: isDequeuedProposalExpired failed")
          /\ UNCHANGED expired
       \/ /\ expired' = (pastQueue[pos] \in chainExpired)
          /\ pc' = "l_getProposalStage"
          /\ UNCHANGED <<opPromise, reason>>
    /\ UNCHANGED <<chainVars, procVars, stdout, viewVars, pastQueue, queue, pos>>

\* index.ts:183-189
ListGetProposalStage ==
    /\ pc = "l_getProposalStage"
    /\ \/ /\ Reject("Error: getProposalStage failed")
          /\ UNCHANGED <<stdout, pos>>
       \/ \E stage \in Stages \ {"Queued"} :
            /\ stdout' = Append(stdout,
                 "ID: " \o ToString(pastQueue[pos]) \o " - " \o stage
                   \o (IF expired THEN " (EXPIRED)" ELSE ""))
            /\ pos' = pos + 1
            /\ pc' = IF pos < Len(pastQueue) THEN "l_isDequeuedProposalExpired"
                     ELSE "l_getQueue"
            /\ UNCHANGED <<opPromise, reason>>
    /\ UNCHANGED <<chainVars, procVars, viewVars, pastQueue, queue, expired>>

\* index.ts:192-196
ListGetQueue ==
    /\ pc = "l_getQueue"
    /\ \/ /\ Reject("Error: getQueue failed")
          /\ UNCHANGED <<stdout, queue, pos>>
       \/ \E q \in QueueLists :
            /\ queue' = q
            /\ IF Len(q) > 0
               THEN /\ stdout' = stdout \o <<"", "Queued (" \o ToString(Len(q)) \o "):">>
                    /\ pos' = 1
                    /\ pc' = "l_isQueuedProposalExpired"
                    /\ UNCHANGED <<opPromise, reason>>
               ELSE /\ Return
                    /\ UNCHANGED <<stdout, pos>>
    /\ UNCHANGED <<chainVars, procVars, viewVars, pastQueue, expired>>

\* index.ts:197-203
ListIsQueuedProposalExpired ==
    /\ pc = "l_isQueuedProposalExpired"
    /\ \/ /\ Reject("Error: isQueuedProposalExpired failed")
          /\ UNCHANGED <<stdout, pos, expired>>
       \/ \E b \in BOOLEAN :
            /\ expired' = b
            /\ stdout' = Append(stdout,
                 "ID: " \o ToString(queue[pos].proposalID) \o ", UpVotes: "
                   \o ToFixed18(queue[pos].upvotes)
                   \o (IF b THEN " (EXPIRED)" ELSE ""))
            /\ pos' = pos + 1
            /\ IF pos < Len(queue)
               THEN UNCHANGED <<pc, opPromise, reason>>
               ELSE Return
    /\ UNCHANGED <<chainVars, procVars, viewVars, pastQueue, queue>>

(***************************************************************************)
(* listExecutedProposals                                                   *)
(***************************************************************************)
HistGetGovernance ==
    /\ Await("h_getGovernance", "h_getPastEvents", "_web3Contracts.getGovernance")
    /\ UNCHANGED <<chainVars, procVars, stdout, viewVars, listVars>>

\* index.ts:209-214
HistGetPastEvents ==
    /\ pc = "h_getPastEvents"
    /\ \/ /\ Reject("Error: getPastEvents failed")
          /\ UNCHANGED stdout
       \/ LET eventLog == FromBlock(executedLog, 0) IN
          /\ stdout' = stdout \o <<"Executed proposals:">>
               \o [j \in 1..Len(eventLog) |->
                     "ID: " \o ToString(eventLog[j].returnValues.proposalId)
                       \o ", Block: @" \o ToString(eventLog[j].blockNumber)
                       \o ", https://explorer.celo.org/tx/" \o eventLog[j].transactionHash]
          /\ Return
    /\ UNCHANGED <<chainVars, procVars, viewVars, listVars>>

Next ==
    \/ Main
    \/ MainResume
    \/ UnhandledRejection
    \/ ProcessExit
    \/ ViewGetGovernance
    \/ ViewGetLockedGold
    \/ ViewGetProposalRecord
    \/ ViewGetGovernanceDirect
    \/ ViewGetPastEventsQueued
    \/ ViewGetPastEventsExecuted
    \/ ObtainKitContractDetails
    \/ GetAccounts
    \/ PromiseAll
    \/ ViewStageDurations
    \/ ViewIsApproved
    \/ ViewGetTotalLockedGold
    \/ ViewGetParticipationParameters
    \/ ViewGetConstitution
    \/ ListGetGovernance
    \/ ListGetDequeue
    \/ ListIsDequeuedProposalExpired
    \/ ListGetProposalStage
    \/ ListGetQueue
    \/ ListIsQueuedProposalExpired
    \/ HistGetGovernance
    \/ HistGetPastEvents

Spec == Init /\ [][Next]_vars


(***************************************************************************)
(* Properties.                                                             *)
(***************************************************************************)
\* The run is `--proposalID <id>` and viewProposal has its record.
Viewing == Truthy(opts.proposalID)
HasRecord == Viewing /\ record # None

\* viewProposal returned from the full report (not the EXECUTED/EXPIRED one).
ReportDone == HasRecord /\ record.stage # "Expiration" /\ opPromise = "resolved"

\* proposalToJSON has returned to viewProposal.
JSONReturned ==
    \/ pc \in {"v_stageDurations", "v_isApproved", "v_getTotalLockedGold",
               "v_getParticipationParameters", "v_getConstitution"}
    \/ ReportDone

\* The last n lines of stdout: the transaction lines of a finished report.
LastLines(n) == SubSeq(stdout, Len(stdout) - n + 1, Len(stdout))

\* How often the character c occurs in s, from position j on.
RECURSIVE CountChar(_, _, _)
CountChar(s, c, j) ==
    IF j > Len(s) THEN 0
    ELSE (IF SubSeq(s, j, j) = c THEN 1 ELSE 0) + CountChar(s, c, j + 1)

\* The decoder finds no call, or as many names as arguments it does not.
Undecodable(tx) == tryParseTx(tx) = None
Mismatched(tx) ==
    /\ tryParseTx(tx) # None
    /\ Cardinality(DOMAIN tryParseTx(tx).callDetails.paramMap)
         # Len(tryParseTx(tx).callDetails.argList)

NoQueuedEvent ==
    \A j \in 1..Len(queuedLog) : queuedLog[j].returnValues.proposalId # proposalID

\* C1: when the process has exited, the exit code is 1 if the selected
\* operation failed and 0 if it completed; no failing run ends with 0.
C1_ExitCodeSignalsFailure ==
    exitCode # None =>
        IF opPromise = "rejected" THEN exitCode = Num(1) ELSE exitCode = Num(0)

\* C2: every transaction line of a finished report carries as many
\* name=value parameters as the decoded call has arguments.
C2_ParamCountPrinted ==
    ReportDone =>
        \A j \in 1..Len(record.proposal) :
            CountChar(LastLines(Len(record.proposal))[j], "=", 1)
              = Len(tryParseTx(record.proposal[j]).callDetails.argList)

\* C3: for a record whose stage is not Expiration and one of whose
\* transactions does not decode or has a parameter-count mismatch,
\* viewProposal never prints a line and never returns normally.
C3_BadTransactionAborts ==
    (/\ HasRecord
     /\ record.stage # "Expiration"
     /\ \E j \in 1..Len(record.proposal) :
          Undecodable(record.proposal[j]) \/ Mismatched(record.proposal[j]))
    => /\ stdout = <<>>
       /\ ~JSONReturned
       /\ pc = "settled" => opPromise = "rejected"

\* C3 witness: a mismatch in the second batch has rejected viewProposal.
C3_Witness ==
    /\ HasRecord
    /\ record.stage = "Referendum"
    /\ Len(record.proposal) > ConcurrencyLimit
    /\ Mismatched(record.proposal[Len(record.proposal)])
    /\ opPromise = "rejected"
    /\ reason = "Error: Length of parameters 1 doesn't match length of arguments 2"
    /\ stdout = <<>>

\* C4: a dequeued proposal whose record stage is not Expiration but which
\* isDequeuedProposalExpired is true of is displayed as stage Expiration.
C4_ExpiryOverridesStage ==
    (/\ HasRecord
     /\ record.stage \notin {"Queued", "Expiration"}
     /\ proposalID \in chainExpired)
    => \A j \in 1..Len(stdout) :
         StartsWith(stdout[j], "Stage:") => stdout[j] = "Stage:      Expiration"

\* C5: a viewProposal that fails has printed nothing.
C5_NoPartialReport ==
    (Viewing /\ opPromise = "rejected") => stdout = <<>>

\* C6: the list proposalToJSON returns has one entry per transaction, the
\* i-th being the decoding of the i-th transaction, and the transaction
\* lines of the report come in that order.
C6_OnChainOrder ==
    /\ (HasRecord /\ JSONReturned) =>
          /\ Len(propJSON) = Len(record.proposal)
          /\ \A j \in 1..Len(record.proposal) :
               LET d == tryParseTx(record.proposal[j]).callDetails IN
               /\ propJSON[j].contract = d.contract
               /\ propJSON[j].function = d.function
               /\ DOMAIN propJSON[j].params = DOMAIN d.paramMap
    /\ ReportDone =>
          \A j \in 1..Len(record.proposal) :
               LET d == tryParseTx(record.proposal[j]).callDetails IN
               StartsWith(LastLines(Len(record.proposal))[j],
                          d.contract \o "." \o d.function \o "(")

\* C6 witness: a report of two batches of differing transactions is printed.
C6_Witness ==
    /\ ReportDone
    /\ Len(record.proposal) > ConcurrencyLimit + 1
    /\ record.proposal[Len(record.proposal)] # record.proposal[Len(record.proposal) - 1]
    /\ i = 2

\* The annotation the Address Annotator is to give a parameter value.
C7_Annotation(v) ==
    IF v.t # "string" THEN v
    ELSE IF ~StartsWith(v.s, "0x") \/ Len(v.s) # AddressLength THEN v
    ELSE IF v.s \in DOMAIN contractAddresses
         THEN Str("contract." \o contractAddresses[v.s] \o ":" \o v.s)
    ELSE IF v.s \in DOMAIN accountNames
         THEN Str("account." \o accountNames[v.s] \o ":" \o v.s)
    ELSE v

\* C7: the params proposalToJSON returns carry the annotated values: a known
\* contract address as a contract label, an account as an account label,
\* anything else unchanged.
C7_ParamsAnnotated ==
    (HasRecord /\ JSONReturned) =>
        \A j \in 1..Len(propJSON) :
            LET d == tryParseTx(record.proposal[j]).callDetails IN
            \A k \in DOMAIN d.paramMap :
                JSGet(propJSON[j].params, k) = C7_Annotation(d.paramMap[k])

\* The Passing line of index.ts:136.
NotStartedLine == "Passing:    FALSE (voting hasn't started yet!)"

\* C8: once the stage displayed is Approval, no Passing line but the
\* "voting hasn't started yet" one and no vote line is ever printed, and
\* the finished report has that Passing line.
C8_ApprovalNeverPassing ==
    (Viewing /\ \E j \in 1..Len(stdout) : stdout[j] = "Stage:      Approval")
    => /\ \A j \in 1..Len(stdout) :
            /\ StartsWith(stdout[j], "Passing:") => stdout[j] = NotStartedLine
            /\ ~StartsWith(stdout[j], "  TOTAL:")
            /\ ~StartsWith(stdout[j], "  YES:")
            /\ ~StartsWith(stdout[j], "  NO:")
            /\ ~StartsWith(stdout[j], "  ABSTAIN:")
       /\ opPromise = "resolved" => \E j \in 1..Len(stdout) : stdout[j] = NotStartedLine

\* C8 witness: an approved proposal in Approval whose record says passing,
\* with votes cast, has been reported.
C8_Witness ==
    /\ ReportDone
    /\ record.stage = "Approval"
    /\ record.passing
    /\ record.votes.Yes > 0
    /\ isApproved
    /\ \E j \in 1..Len(stdout) : stdout[j] = NotStartedLine

\* C9 as stated: with no ProposalQueued event for the ID, viewProposal
\* prints nothing and does not return normally, whatever the record's stage.
C9_NotFoundWhateverStage ==
    (Viewing /\ NoQueuedEvent) => (stdout = <<>> /\ opPromise # "resolved")

\* C9 amended: with no ProposalQueued event for the ID and a record in stage
\* Expiration, viewProposal prints nothing, does not return normally, and
\* the scan of the queue events ends in the "was not found" error.
C9_NotFoundWhenExpired ==
    (HasRecord /\ NoQueuedEvent /\ record.stage = "Expiration")
    => /\ stdout = <<>>
       /\ opPromise # "resolved"
       /\ pc # "v_getPastEventsExecuted"
       /\ (opPromise = "rejected" /\ ~StartsWith(reason, "Error: get")
             /\ ~StartsWith(reason, "Error: _web3"))
            => reason = "Error: Proposal " \o ToString(proposalID) \o " was not found"

\* C9 witness: the log holds an event of another proposal only, and the
\* run has ended in the "was not found" error.
C9_Witness ==
    /\ HasRecord
    /\ record.stage = "Expiration"
    /\ NoQueuedEvent
    /\ queuedLog # <<>>
    /\ opPromise = "rejected"
    /\ reason = "Error: Proposal " \o ToString(proposalID) \o " was not found"
    /\ stdout = <<>>

\* C10: the finished report of a proposal in stage Approval has, after the
\* ProposalID/Proposer/Description lines, exactly the lines Stage, Dequeued,
\* Referendum, Execution, Expires, Approved, Passing, in this order.
C10_ApprovalHeaderLines ==
    (ReportDone /\ record.stage = "Approval")
    => /\ Len(stdout) = 3 + 7 + 1 + Len(record.proposal)
       /\ StartsWith(stdout[4], "Stage:")
       /\ StartsWith(stdout[5], "Dequeued:")
       /\ StartsWith(stdout[6], "Referendum:")
       /\ StartsWith(stdout[7], "Execution:")
       /\ StartsWith(stdout[8], "Expires:")
       /\ StartsWith(stdout[9], "Approved:")
       /\ StartsWith(stdout[10], "Passing:")


\* The tasks in flight that have an account lookup to make.
TasksWithLookups ==
    {j \in 1..Len(tasks) :
       LET parsedTx == tryParseTx(Slice(record.proposal, i)[j]) IN
       /\ parsedTx # None
       /\ IsAccountCalls(parsedTx.callDetails.paramMap, 0) # <<>>}

====
